---------------------------- MODULE Spec2Model ----------------------------
(***************************************************************************)
(* pairs2groups: the group finder (pairs2groups/__init__.py) and the       *)
(* subset utilities it drives (pairs2groups/util.py).                      *)
(*                                                                         *)
(* A frozenset is a TLA+ set, a Python list or tuple is a sequence.  The   *)
(* recursive function _f is run one statement group at a time on an        *)
(* explicit stack of frames.  The order in which a frozenset is iterated   *)
(* (list(T), tuple(f), list(set(..))) is not fixed by the language: every  *)
(* top-level call runs under one of two enumeration orders.                *)
(***************************************************************************)
EXTENDS Integers, Sequences, FiniteSets, TLC

\* largest item count N_items handed to find_homogeneous_groups
MaxN == 4
\* longest list handed directly to the list utilities
MaxLen == 2
\* the sets in those lists are subsets of 0..MaxElem-1
MaxElem == 2
\* calls made between a call and its repetition (SeqSpec)
MaxBetween == 1

Orders == {"asc", "desc"}

---------------------------------------------------------------------------
(* Python built-ins used by the code *)

\* F applied to the value of v, which is computed once
Bind(v, F(_)) == CHOOSE r \in {F(x) : x \in {v}} : TRUE

len(s) == Len(s)

Reverse(s) == [i \in 1..Len(s) |-> s[Len(s) + 1 - i]]

\* the items of T from the smallest to the largest
Ascending(T) ==
    [i \in 1..Cardinality(T) |->
        CHOOSE x \in T : Cardinality({y \in T : y < x}) = i - 1]

\* list(T) / tuple(T) of a frozenset of items
list(T, ord) ==
    Bind(T, LAMBDA t : IF ord = "asc" THEN Ascending(t) ELSE Reverse(Ascending(t)))

\* G comes before H: the largest item in only one of them is in H
Before(G, H) ==
    LET D == (G \ H) \cup (H \ G)
    IN G # H /\ (CHOOSE x \in D : \A y \in D : y <= x) \in H

\* the members of a set of frozensets, one after the other
Enumerate(S) ==
    [i \in 1..Cardinality(S) |->
        CHOOSE G \in S : Cardinality({H \in S : Before(H, G)}) = i - 1]

\* list(set(good_sets)): the distinct members, in one of two orders
list_of_set(S, ord) ==
    Bind(S, LAMBDA t : IF ord = "asc" THEN Enumerate(t) ELSE Reverse(Enumerate(t)))

\* frozenset(seq) / set(seq)
frozenset(s) == Bind(s, LAMBDA l : {l[i] : i \in 1..Len(l)})

\* range(n)
range(n) == 0..(n - 1)

---------------------------------------------------------------------------
(* pairs2groups/util.py *)

\* memoized.__call__ with hashable arguments: the value handed back ...
memoized_value(cache, args, computed) ==
    IF args \in DOMAIN cache THEN cache[args] ELSE computed

\* ... and the cache it leaves behind
memoized_cache(cache, args, computed) ==
    IF args \in DOMAIN cache THEN cache ELSE (args :> computed) @@ cache

\* UnorderedPair that keeps the order it is given
UnorderedPair_as_given(tup) == <<tup[1], tup[2]>>

UnorderedPair(tup) ==
    IF tup[1] <= tup[2] THEN <<tup[1], tup[2]>> ELSE <<tup[2], tup[1]>>

\* take_not(T, j) with the 0-based j of the code written 1-based
take_not(T, j) ==
    Bind(T, LAMBDA l : [i \in 1..(Len(l) - 1) |-> IF i < j THEN l[i] ELSE l[i + 1]])

is_list_of_sets_equal(A, B) ==
    IF len(A) # len(B) THEN FALSE
    ELSE LET As == frozenset(A)
             Bs == frozenset(B)
             Cs == As \ Bs
         IN IF Cardinality(Cs) # 0 THEN FALSE ELSE TRUE

\* raised: NotImplementedError; otherwise value is the list of subsets
get_k_element_subsets(k, T, ord) ==
    IF k = Cardinality(T)
    THEN [raised |-> FALSE, value |-> <<T>>]
    ELSE IF k = Cardinality(T) - 1
    THEN Bind(list(T, ord), LAMBDA Tl :
             [raised |-> FALSE,
              value |-> [j \in 1..Len(Tl) |-> frozenset(take_not(Tl, j))]])
    ELSE [raised |-> TRUE, value |-> <<>>]

\* how many pairs the two loops of get_all_pairs have appended, over a list of
\* n elements, once the pair of the positions i < j is appended
appended(n, i, j) == (i - 1) * n - ((i - 1) * i) \div 2 + (j - i)

\* result of the two loops over Sl = list(S)
get_all_pairs(S, ord) ==
    Bind(list(S, ord), LAMBDA Sl :
        [r \in 1..((Len(Sl) * (Len(Sl) - 1)) \div 2) |->
            LET q == CHOOSE c \in (1..Len(Sl)) \X (1..Len(Sl)) :
                         c[1] < c[2] /\ appended(Len(Sl), c[1], c[2]) = r
            IN UnorderedPair(<<Sl[q[1]], Sl[q[2]]>>)])

\* the inner loop looking at the positions after i only
present_only_later(S, i) ==
    \E n \in (i + 1)..Len(S) : Cardinality(S[i] \ S[n]) = 0

\* the inner loop of remove_overlapping_subsets for position i
present_later(S, i) ==
    Bind(take_not(S, i), LAMBDA others :
        \E n \in 1..Len(others) : Cardinality(S[i] \ others[n]) = 0)

\* T: the elem of every position that is not present_later, in list order
remove_overlapping_subsets(S) ==
    Bind({i \in 1..Len(S) : ~present_later(S, i)}, LAMBDA kept :
        [t \in 1..Cardinality(kept) |->
            S[CHOOSE i \in kept : Cardinality({h \in kept : h < i}) = t - 1]])

---------------------------------------------------------------------------
(* pairs2groups/__init__.py: find_homogeneous_groups *)

VARIABLES
    pc,                   \* "idle", "call", "loop", "finish", "done", "error"
    op,                   \* the function the caller invoked
    different_pairs_arg,  \* the different_pairs argument as passed
    N_items,              \* the N_items argument
    order,                \* enumeration order of frozensets during this call
    different_pairs,      \* the set of UnorderedPair built from the argument
    call_args,            \* (T, k) of the _f call being entered
    stack,                \* frames of _f: T, k, U, i, this_good_sets
    already_descended,    \* the set shared by all frames of one call
    good_sets,            \* what the outermost _f returned
    result,               \* the returned list
    error,                \* the exception that ended the call
    gks_cache,            \* memoized(get_k_element_subsets).cache
    gap_cache,            \* memoized(get_all_pairs).cache
    expand_log,           \* every U_i that got past the already_descended test
    arg_A, arg_B,         \* arguments of a direct call of a list utility
    ret_bool,             \* what is_list_of_sets_equal returned
    history               \* the completed find_homogeneous_groups calls

vars == <<pc, op, different_pairs_arg, N_items, order, different_pairs,
          call_args, stack, already_descended, good_sets, result, error,
          gks_cache, gap_cache, expand_log, arg_A, arg_B, ret_bool, history>>

search_vars == <<call_args, stack, already_descended, good_sets, expand_log>>
cache_vars == <<gks_cache, gap_cache>>
input_vars == <<op, different_pairs_arg, N_items, order, different_pairs>>
util_vars == <<arg_A, arg_B, ret_bool>>

NoCache == [x \in {} |-> <<>>]

\* the items a caller may name: one universe for every N_items up to MaxN, so
\* that a smaller N_items meets pairs outside range(N_items)
Items == range(MaxN)
AllPairs == {p \in Items \X Items : p[1] < p[2]}
Modes == {"hilo", "both"}

\* a relation as a caller writes it: each pair once, larger item first, or
\* each pair in both orientations
Orient(E, m) ==
    IF m = "hilo" THEN {<<p[2], p[1]>> : p \in E}
    ELSE E \cup {<<p[2], p[1]>> : p \in E}

InputRelations == {Orient(E, m) : E \in SUBSET AllPairs, m \in Modes}
InputSizes == (-1)..MaxN

Init ==
    /\ pc = "idle"
    /\ op = "none"
    /\ different_pairs_arg = {}
    /\ N_items = 0
    /\ order = "asc"
    /\ different_pairs = {}
    /\ call_args = [T |-> {}, k |-> 0]
    /\ stack = <<>>
    /\ already_descended = {}
    /\ good_sets = <<>>
    /\ result = <<>>
    /\ error = "none"
    /\ gks_cache = NoCache
    /\ gap_cache = NoCache
    /\ expand_log = <<>>
    /\ arg_A = <<>>
    /\ arg_B = <<>>
    /\ ret_bool = FALSE
    /\ history = <<>>

\* one set shared by every call
kept_already_descended(old) == old

\* the set() handed to the outermost _f
new_already_descended(old) == {}

\* the assertion left out
assertion_skipped(k, S) == TRUE

\* line 121: assert k == len(S)
assertion_holds(k, S) == k = Cardinality(S)

\* lines 118-125 and the evaluation of the arguments of _f(T,k,set())
Invoke(dp, N, ord) ==
    /\ op' = "find_homogeneous_groups"
    /\ different_pairs_arg' = dp
    /\ N_items' = N
    /\ order' = ord
    /\ stack' = <<>>
    /\ good_sets' = <<>>
    /\ result' = <<>>
    /\ expand_log' = <<>>
    /\ LET S == range(N)
           k == N
       IN IF ~assertion_holds(k, S)
          THEN /\ pc' = "error"
               /\ error' = "AssertionError"
               /\ different_pairs' = {}
               /\ UNCHANGED <<call_args, already_descended>>
          ELSE /\ different_pairs' = {UnorderedPair(<<p[1], p[2]>>) : p \in dp}
               /\ call_args' = [T |-> S, k |-> k]
               /\ already_descended' = new_already_descended(already_descended)
               /\ error' = "none"
               /\ pc' = "call"
    /\ UNCHANGED <<gks_cache, gap_cache, arg_A, arg_B, ret_bool, history>>

find_homogeneous_groups ==
    /\ pc = "idle"
    /\ \E dp \in InputRelations, N \in InputSizes, ord \in Orders : Invoke(dp, N, ord)

\* lines 129-131: U = util.get_k_element_subsets( k, T )
Enter_f ==
    /\ pc = "call"
    /\ LET args == <<call_args.k, call_args.T>>
           hit == args \in DOMAIN gks_cache
           computed == get_k_element_subsets(call_args.k, call_args.T, order)
       IN IF ~hit /\ computed.raised
          THEN /\ pc' = "error"
               /\ error' = "NotImplementedError"
               /\ UNCHANGED <<stack, gks_cache>>
          ELSE /\ stack' = Append(stack,
                     [T |-> call_args.T, k |-> call_args.k,
                      U |-> memoized_value(gks_cache, args, computed.value),
                      i |-> 1, this_good_sets |-> <<>>])
               /\ gks_cache' = memoized_cache(gks_cache, args, computed.value)
               /\ pc' = "loop"
               /\ UNCHANGED error
    /\ UNCHANGED <<input_vars, call_args, already_descended, good_sets, result,
                   gap_cache, expand_log, util_vars, history>>

top == stack[Len(stack)]
U_i == top.U[top.i]
in_loop == pc = "loop" /\ top.i <= len(top.U)

\* the test of line 133 left out
never_already_descended(u, descended) == FALSE

\* line 133
is_already_descended(u, descended) == u \in descended

\* line 137: pairs = frozenset(util.get_all_pairs(U_i))
pairs_of(u) == frozenset(memoized_value(gap_cache, u, get_all_pairs(u, order)))

\* line 138
has_different_pair(pairs, different) == Cardinality(pairs \cap different) # 0

\* descending from 2-element subsets too
may_descend_from_pairs(k) == k >= 2

\* line 139
may_descend(k) == k >= 3

\* the recursive call made with the caller's k
same_k(k) == k

\* line 140: the k handed to the recursive call
child_k(k) == k - 1

set_top(f) == [stack EXCEPT ![Len(stack)] = f]

\* lines 133-134: continue
Skip ==
    /\ in_loop
    /\ is_already_descended(U_i, already_descended)
    /\ stack' = set_top([top EXCEPT !.i = @ + 1])
    /\ UNCHANGED <<pc, input_vars, call_args, already_descended, good_sets,
                   result, error, cache_vars, expand_log, util_vars, history>>

\* lines 136-138, 142-143: U_i has no different pair
Remember ==
    /\ in_loop
    /\ ~is_already_descended(U_i, already_descended)
    /\ ~has_different_pair(pairs_of(U_i), different_pairs)
    /\ already_descended' = already_descended \cup {U_i}
    /\ expand_log' = Append(expand_log, U_i)
    /\ gap_cache' = memoized_cache(gap_cache, U_i, get_all_pairs(U_i, order))
    /\ stack' = set_top([top EXCEPT !.i = @ + 1,
                                    !.this_good_sets = Append(@, U_i)])
    /\ UNCHANGED <<pc, input_vars, call_args, good_sets, result, error,
                   gks_cache, util_vars, history>>

\* lines 136-140: U_i has a different pair and k >= 3
Descend ==
    /\ in_loop
    /\ ~is_already_descended(U_i, already_descended)
    /\ has_different_pair(pairs_of(U_i), different_pairs)
    /\ may_descend(top.k)
    /\ already_descended' = already_descended \cup {U_i}
    /\ expand_log' = Append(expand_log, U_i)
    /\ gap_cache' = memoized_cache(gap_cache, U_i, get_all_pairs(U_i, order))
    /\ call_args' = [T |-> U_i, k |-> child_k(top.k)]
    /\ pc' = "call"
    /\ UNCHANGED <<input_vars, stack, good_sets, result, error, gks_cache,
                   util_vars, history>>

\* lines 136-139: U_i has a different pair and k < 3
Abandon ==
    /\ in_loop
    /\ ~is_already_descended(U_i, already_descended)
    /\ has_different_pair(pairs_of(U_i), different_pairs)
    /\ ~may_descend(top.k)
    /\ already_descended' = already_descended \cup {U_i}
    /\ expand_log' = Append(expand_log, U_i)
    /\ gap_cache' = memoized_cache(gap_cache, U_i, get_all_pairs(U_i, order))
    /\ stack' = set_top([top EXCEPT !.i = @ + 1])
    /\ UNCHANGED <<pc, input_vars, call_args, good_sets, result, error,
                   gks_cache, util_vars, history>>

\* line 144, then line 141 in the caller's frame or line 147 at the outermost
Return ==
    /\ pc = "loop"
    /\ top.i > len(top.U)
    /\ IF Len(stack) > 1
       THEN LET caller == stack[Len(stack) - 1]
            IN /\ stack' = Append(SubSeq(stack, 1, Len(stack) - 2),
                       [caller EXCEPT !.i = @ + 1,
                                      !.this_good_sets = @ \o top.this_good_sets])
               /\ UNCHANGED <<pc, good_sets>>
       ELSE /\ stack' = <<>>
            /\ good_sets' = top.this_good_sets
            /\ pc' = "finish"
    /\ UNCHANGED <<input_vars, call_args, already_descended, result, error,
                   cache_vars, expand_log, util_vars, history>>

\* lines 149-150
final_sets(good, ord) ==
    Bind(list_of_set(frozenset(good), ord), LAMBDA l : remove_overlapping_subsets(l))

\* line 151 with empty sets filtered out
tuples_of_nonempty(final, ord) ==
    Bind(SelectSeq(final, LAMBDA f : f # {}), LAMBDA l :
        [i \in 1..Len(l) |-> list(l[i], ord)])

\* line 151
tuples(final, ord) ==
    Bind(final, LAMBDA l : [i \in 1..Len(l) |-> list(l[i], ord)])

groups_of(res) == {frozenset(res[i]) : i \in 1..Len(res)}

Finish ==
    /\ pc = "finish"
    /\ \E ord \in Orders : \E res \in {tuples(final_sets(good_sets, ord), order)} :
         /\ result' = res
         /\ history' = Append(history, [different_pairs |-> different_pairs_arg,
                                       N_items |-> N_items,
                                       groups |-> groups_of(res)])
    /\ pc' = "done"
    /\ UNCHANGED <<input_vars, search_vars, error, cache_vars, util_vars>>

Step == Enter_f \/ Skip \/ Remember \/ Descend \/ Abandon \/ Return \/ Finish

---------------------------------------------------------------------------
(* direct calls of the list utilities *)

ElemSets == SUBSET range(MaxElem)

RECURSIVE ListsUpTo(_)
ListsUpTo(n) ==
    IF n = 0 THEN {<<>>}
    ELSE LET shorter == ListsUpTo(n - 1)
         IN shorter \cup {Append(l, x) : l \in {s \in shorter : Len(s) = n - 1},
                                         x \in ElemSets}

InputLists == ListsUpTo(MaxLen)

\* a list argument is unhashable: memoized.__call__ runs the function
call_remove_overlapping_subsets ==
    /\ pc = "idle"
    /\ \E S \in InputLists :
         /\ arg_A' = S
         /\ result' = remove_overlapping_subsets(S)
    /\ op' = "remove_overlapping_subsets"
    /\ pc' = "done"
    /\ UNCHANGED <<different_pairs_arg, N_items, order, different_pairs,
                   search_vars, error, cache_vars, arg_B, ret_bool, history>>

call_is_list_of_sets_equal ==
    /\ pc = "idle"
    /\ \E A \in InputLists, B \in InputLists :
         /\ arg_A' = A
         /\ arg_B' = B
         /\ ret_bool' = is_list_of_sets_equal(A, B)
    /\ op' = "is_list_of_sets_equal"
    /\ pc' = "done"
    /\ UNCHANGED <<different_pairs_arg, N_items, order, different_pairs,
                   search_vars, result, error, cache_vars, history>>

Next ==
    \/ find_homogeneous_groups
    \/ Enter_f
    \/ Skip
    \/ Remember
    \/ Descend
    \/ Abandon
    \/ Return
    \/ Finish
    \/ call_remove_overlapping_subsets
    \/ call_is_list_of_sets_equal

Spec == Init /\ [][Next]_vars

\* one call with N_items >= 0 and a relation over range(N_items)
call_within_range ==
    /\ pc = "idle"
    /\ \E N \in 0..MaxN, ord \in Orders :
         \E dp \in SUBSET {p \in AllPairs : p[2] < N} : Invoke(dp, N, ord)

NextCall ==
    \/ call_within_range
    \/ Enter_f
    \/ Skip
    \/ Remember
    \/ Descend
    \/ Abandon
    \/ Return
    \/ Finish

\* a started call runs on: the program is sequential and never waits
FairSpec == Init /\ [][NextCall]_vars /\ WF_vars(Step)

---------------------------------------------------------------------------
(* several calls in one process: the memoization caches live on *)

SeqSizes == {MaxN - 1, MaxN}
SeqRelations == {{}, {<<0, 1>>}, {<<2, 1>>, <<0, 1>>}, AllPairs}

\* the first call and the calls that follow it
call_sequence ==
    /\ pc \in {"idle", "done"}
    /\ Len(history) <= MaxBetween
    /\ \E dp \in SeqRelations, N \in SeqSizes, ord \in Orders : Invoke(dp, N, ord)

\* the first call made once more, with the same arguments
repeat_call ==
    /\ pc = "done"
    /\ Len(history) = MaxBetween + 1
    /\ \E ord \in Orders :
         Invoke(history[1].different_pairs, history[1].N_items, ord)

NextSeq ==
    \/ call_sequence
    \/ repeat_call
    \/ Enter_f
    \/ Skip
    \/ Remember
    \/ Descend
    \/ Abandon
    \/ Return
    \/ Finish

SeqSpec == Init /\ [][NextSeq]_vars


---------------------------------------------------------------------------
(* the properties *)

Returned == pc = "done" /\ op = "find_homogeneous_groups"

\* Python's  a in group  on a tuple
member(a, group) == \E i \in 1..Len(group) : group[i] = a

InRange(p, N) == p[1] \in range(N) /\ p[2] \in range(N)
AllInRange == \A p \in different_pairs_arg : InRange(p, N_items)

Homogeneous(G, rel) == \A p \in rel : ~(p[1] \in G /\ p[2] \in G)

\* the maximal homogeneous subsets of range(N) with at least 2 elements
MaximalGroups(N, rel) ==
    {G \in SUBSET range(N) :
        /\ Cardinality(G) >= 2
        /\ Homogeneous(G, rel)
        /\ \A H \in SUBSET range(N) : (G \subseteq H /\ G # H) => ~Homogeneous(H, rel)}

\* C1: no returned group contains both members of a pair of different_pairs
C1_NoDifferentPairInGroup ==
    Returned =>
        \A g \in 1..Len(result) : \A p \in different_pairs_arg :
            ~(member(p[1], result[g]) /\ member(p[2], result[g]))

\* a call returned groups, and both members of a different pair are in groups
C1_Witness ==
    /\ Returned
    /\ N_items = MaxN
    /\ \E p \in different_pairs_arg : \E g, h \in 1..Len(result) :
         /\ p[1] > p[2]
         /\ member(p[1], result[g])
         /\ member(p[2], result[h])

\* C2: for N >= 2 and a relation over [0,N) the returned groups are exactly the
\* maximal homogeneous subsets with at least 2 elements, each returned as a
\* tuple without repeated items
C2_ExactlyMaximalGroups ==
    (Returned /\ N_items >= 2 /\ AllInRange) =>
        /\ groups_of(result) = MaximalGroups(N_items, different_pairs_arg)
        /\ \A g \in 1..Len(result) :
             Len(result[g]) = Cardinality(frozenset(result[g]))

\* N=3 with the pair of 0 and 1 different returned {(0,2),(1,2)}
C2_Witness ==
    /\ Returned
    /\ N_items = 3
    /\ different_pairs_arg = {<<1, 0>>}
    /\ groups_of(result) = {{0, 2}, {1, 2}}

\* C3: no returned group is a subset of the group at another position
C3_NoGroupInsideAnother ==
    Returned =>
        \A g, h \in 1..Len(result) :
            g # h => ~(frozenset(result[g]) \subseteq frozenset(result[h]))

\* the search found a group and a strict subset of it, and returned
C3_Witness ==
    /\ Returned
    /\ Len(result) >= 2
    /\ \E a, b \in 1..Len(good_sets) :
         good_sets[a] \subseteq good_sets[b] /\ good_sets[a] # good_sets[b]

\* C4 as stated: N = 0 with empty different_pairs returns a list with no group
C4_EmptyResult ==
    (Returned /\ N_items = 0 /\ different_pairs_arg = {}) => Len(result) = 0

\* C4 as amended: N = 0 with empty different_pairs returns a list holding
\* exactly one group, the empty group
C4_OneEmptyGroup ==
    (Returned /\ N_items = 0 /\ different_pairs_arg = {}) => result = << <<>> >>

\* a call with N = 0 and no pairs returned
C4_Witness ==
    /\ Returned
    /\ N_items = 0
    /\ different_pairs_arg = {}
    /\ Len(result) = 1

GroupsIgnoringOutOfRange ==
    LET rel == {p \in different_pairs_arg : InRange(p, N_items)}
    IN IF N_items < 2 THEN {range(N_items)} ELSE MaximalGroups(N_items, rel)

SameInput(a, b) ==
    a.different_pairs = b.different_pairs /\ a.N_items = b.N_items

\* C6: two calls with the same (different_pairs, N) return the same set of
\* groups, whatever was called in between
C6_SameInputSameGroups ==
    \A a, b \in 1..Len(history) :
        SameInput(history[a], history[b]) => history[a].groups = history[b].groups

\* a call, a different call on the same items, and the first call again, which
\* found its subsets in the caches and returned groups
C6_Witness ==
    /\ Len(history) >= 3
    /\ SameInput(history[1], history[3])
    /\ ~SameInput(history[1], history[2])
    /\ history[1].N_items = history[2].N_items
    /\ history[1].N_items = MaxN
    /\ history[1].groups # {}
    /\ history[1].groups # history[2].groups

Occurrences(S, x) == Cardinality({i \in 1..Len(S) : S[i] = x})

\* C7: of a set that is in the list several times, with no strict superset in
\* the list, exactly one copy survives, and every member of the list is a
\* subset of a member of the output
C7_OneCopySurvives ==
    (pc = "done" /\ op = "remove_overlapping_subsets") =>
        /\ \A i \in 1..Len(arg_A) :
             (/\ Occurrences(arg_A, arg_A[i]) >= 2
              /\ \A j \in 1..Len(arg_A) :
                   ~(arg_A[i] \subseteq arg_A[j] /\ arg_A[i] # arg_A[j]))
             => Occurrences(result, arg_A[i]) = 1
        /\ \A i \in 1..Len(arg_A) : \E t \in 1..Len(result) :
             arg_A[i] \subseteq result[t]

\* C8: is_list_of_sets_equal(A, B) is true exactly when A and B hold the same
\* sets, order and repetitions ignored
C8_EqualAsSetsOfSets ==
    (pc = "done" /\ op = "is_list_of_sets_equal") =>
        (ret_bool <=> (frozenset(arg_A) = frozenset(arg_B)))

\* C9: during one call every subset is expanded at most once, a subset in
\* already_descended is not expanded again, and _f is never entered for a
\* subset without a different pair (below a recorded group)
C9_ExpandedAtMostOnce ==
    op = "find_homogeneous_groups" =>
        /\ \A a, b \in 1..Len(expand_log) : expand_log[a] = expand_log[b] => a = b
        /\ frozenset(expand_log) = already_descended
        /\ \A f \in 2..Len(stack) : ~Homogeneous(stack[f].T, different_pairs)
        /\ \A f \in 1..Len(stack) : \A g \in 1..Len(stack[f].this_good_sets) :
             /\ stack[f].this_good_sets[g] \in already_descended
             /\ \A h \in 2..Len(stack) : stack[h].T # stack[f].this_good_sets[g]
        /\ (pc = "call" /\ expand_log # <<>>) =>
             ~Homogeneous(call_args.T, different_pairs)

\* a second parent generated a child that is already in already_descended
C9_Witness ==
    /\ op = "find_homogeneous_groups"
    /\ in_loop
    /\ Len(stack) >= 3
    /\ U_i \in already_descended
    /\ Occurrences(expand_log, U_i) = 1

\* every _f call has k = |T| (outermost) or k = |T| - 1 (recursive), one less
\* than its caller's k, which is at least 3; get_k_element_subsets never raises
C10_Descent ==
    op = "find_homogeneous_groups" =>
        /\ error # "NotImplementedError"
        /\ Len(stack) >= 1 => stack[1].k = Cardinality(stack[1].T)
        /\ \A f \in 2..Len(stack) :
             /\ stack[f].k = stack[f - 1].k - 1
             /\ stack[f - 1].k >= 3
             /\ stack[f].k = Cardinality(stack[f].T) - 1
        /\ pc = "call" =>
             \/ call_args.k = Cardinality(call_args.T)
             \/ call_args.k = Cardinality(call_args.T) - 1

\* C10: the recursion descends one k at a time, only from k >= 3, never leaves
\* the cardinalities get_k_element_subsets supports, and a call with N >= 0
\* eventually returns its list
C10_Terminates ==
    /\ []C10_Descent
    /\ (pc = "call" /\ N_items >= 0) ~> (pc = "done")

\* the search is three frames deep under the relation that makes every pair
\* of MaxN items different
C10_Witness ==
    /\ op = "find_homogeneous_groups"
    /\ N_items = MaxN
    /\ different_pairs = AllPairs
    /\ Len(stack) >= 3
    /\ pc = "loop"


===========================================================================
